---- MODULE Spec2Model ----
(***************************************************************************)
(* Model of src/cost_analysis/aggregate_azure_cost.py: AzureCostAggregator *)
(* and main().                                                             *)
(*                                                                         *)
(* Amounts are Python floats in the source; here they are exact decimals   *)
(* counted in hundredths (950.5 is 95050).  Optional values are <<>>       *)
(* (Python None) or <<v>>.  File names and JSON strings are sequences of   *)
(* pieces; str.lower(), the "in" substring test and re.search work on the  *)
(* pieces.                                                                 *)
(***************************************************************************)
EXTENDS Integers, Sequences, FiniteSets, TLC

VARIABLES
    pc,                \* position in main() and process_all_files: "main", "find",
                       \* "loop", "parse", "locate", "november", "december", "exit"
    base_dir_exists,   \* aggregator.base_dir.exists()
    tree,              \* the files below base_dir (what os.walk yields)
    diff_files,        \* local of process_all_files: sorted comparison documents
    idx,               \* number of entries of diff_files the for loop has taken
    subscription_data, \* self.subscription_data: identifier -> record
    observed,          \* per pass of the loop with an identifier: the locals of
                       \* the loop body, None where not assigned
    exit_code,         \* how main() ended: running, returned a code, or raised
    report,            \* None until generate_report has written the output file
    agg_result,        \* result of a call of calculate_aggregates on its own
    probe              \* input and result of a call of find_related_json_files
                       \* on its own

vars == <<pc, base_dir_exists, tree, diff_files, idx, subscription_data,
          observed, exit_code, report, agg_result, probe>>

----------------------------------------------------------------------------
(* Bounds of the model *)

\* most files below base_dir
MaxFiles == 2
\* most records in a mapping handed to calculate_aggregates on its own
MaxRecords == 2

----------------------------------------------------------------------------
(* Optional values and small helpers *)

None == <<>>
Some(v) == <<v>>
The(o) == o[1]

Range(s) == {s[i] : i \in 1..Len(s)}

\* outcome of a call: a returned value, or an exception that was not caught
Return(v) == [exc |-> "none", val |-> v]
Raise(e) == [exc |-> e, val |-> None]

----------------------------------------------------------------------------
(* Text: pieces, lower(), substring test *)

\* str.lower() on one piece
LowerPiece(p) ==
    CASE p = "DIFF" -> "diff"
      [] p = "AAAA-UUID" -> "aaaa-uuid"
      [] p = "BBBB-UUID" -> "bbbb-uuid"
      [] p = "REPORT" -> "report"
      [] OTHER -> p

\* str.lower()
Lower(text) == [i \in 1..Len(text) |-> LowerPiece(text[i])]

\* the "needle in text" test of Python on strings
Contains(text, needle) == \E i \in 1..Len(text) : text[i] = needle

\* pieces the pattern [0-9a-f]{8}-[0-9a-f]{4}-[0-9a-f]{4}-[0-9a-f]{4}-[0-9a-f]{12}
\* matches; the pattern has lower-case hex digits only
UuidPieces == {"aaaa-uuid", "bbbb-uuid"}


----------------------------------------------------------------------------
(* extract_subscription_id *)

\* re.search(pattern, text): the leftmost piece the UUID pattern matches
SearchUuid(text) ==
    IF \E i \in 1..Len(text) : text[i] \in UuidPieces
    THEN LET first == CHOOSE i \in 1..Len(text) :
                          /\ text[i] \in UuidPieces
                          /\ \A j \in 1..(i - 1) : text[j] \notin UuidPieces
         IN  Some(text[first])
    ELSE None

extract_subscription_id(filename) == SearchUuid(Lower(filename))

----------------------------------------------------------------------------
(* Decimal text and float() *)

Digits == <<"0", "1", "2", "3", "4", "5", "6", "7", "8", "9">>

IsDigit(c) == c \in Range(Digits)

DigitVal(c) == (CHOOSE k \in 1..Len(Digits) : Digits[k] = c) - 1

RECURSIVE NatVal(_)
\* value of a (possibly empty) run of digits
NatVal(ds) ==
    IF Len(ds) = 0 THEN 0
    ELSE 10 * NatVal(SubSeq(ds, 1, Len(ds) - 1)) + DigitVal(ds[Len(ds)])

\* str.replace(',', '')
StripCommas(text) == SelectSeq(text, LAMBDA c : c # ",")

\* text float() accepts: digits with at most one point and at least one digit
IsDecimal(text) ==
    /\ Len(text) > 0
    /\ \A i \in 1..Len(text) : IsDigit(text[i]) \/ text[i] = "."
    /\ Cardinality({i \in 1..Len(text) : text[i] = "."}) <= 1
    /\ \E i \in 1..Len(text) : IsDigit(text[i])

\* float(text) of a decimal text, in hundredths; the texts of the model carry
\* at most two decimals
DecimalValue(text) ==
    LET dots == {i \in 1..Len(text) : text[i] = "."}
        dot == IF dots = {} THEN Len(text) + 1 ELSE CHOOSE i \in dots : TRUE
        whole == SubSeq(text, 1, dot - 1)
        frac == SubSeq(text, dot + 1, Len(text))
        cents == IF Len(frac) = 0 THEN 0
                 ELSE IF Len(frac) = 1 THEN 10 * DigitVal(frac[1])
                 ELSE 10 * DigitVal(frac[1]) + DigitVal(frac[2])
    IN  100 * NatVal(whole) + cents

\* float(text) on a string
FloatOfText(text) ==
    IF IsDecimal(text) THEN Return(DecimalValue(text)) ELSE Raise("ValueError")

----------------------------------------------------------------------------
(* parse_diff_text_file *)

\* the group ([\d,]+\.\d+): digits and commas, a point, digits
MatchesAmount(text) ==
    \E d \in 1..Len(text) :
        /\ text[d] = "."
        /\ d > 1
        /\ d < Len(text)
        /\ \A i \in 1..(d - 1) : IsDigit(text[i]) \/ text[i] = ","
        /\ \A i \in (d + 1)..Len(text) : IsDigit(text[i])

\* the pattern \|\s*TOTAL COSTS\s*\|\s*(amount)\s*EUR\s*\|\s*(amount)\s*EUR on a
\* table row [label, cells], each cell an amount text and a currency code
MatchesTotalRow(row) ==
    /\ row.label = "TOTAL COSTS"
    /\ Len(row.cells) >= 2
    /\ \A k \in 1..2 : /\ MatchesAmount(row.cells[k].amount)
                       /\ row.cells[k].currency = "EUR"

\* float(match.group(k).replace(',', ''))
GroupFloat(row, k) == FloatOfText(StripCommas(row.cells[k].amount))

\* exceptions parse_diff_text_file catches; UnicodeDecodeError is a ValueError
DiffCaught == {"FileNotFoundError", "ValueError", "UnicodeDecodeError"}

\* open() and f.read() with encoding utf-8
OpenRead(file) ==
    CASE file.state = "missing" -> Raise("FileNotFoundError")
      [] file.state = "unopenable" -> Raise("PermissionError")
      [] file.state = "undecodable" -> Raise("UnicodeDecodeError")
      [] OTHER -> Return(file.content)

parse_diff_text_file(file) ==
    LET opened == OpenRead(file)
        rows == opened.val
        hits == {i \in 1..Len(rows) : MatchesTotalRow(rows[i])}
        first == CHOOSE i \in hits : \A j \in hits : i <= j
        source == GroupFloat(rows[first], 1)
        target == GroupFloat(rows[first], 2)
        outcome == IF opened.exc # "none" THEN Raise(opened.exc)
                   ELSE IF hits = {} THEN Return(<<None, None>>)
                   ELSE IF source.exc # "none" THEN Raise(source.exc)
                   ELSE IF target.exc # "none" THEN Raise(target.exc)
                   ELSE Return(<<Some(source.val), Some(target.val)>>)
    IN  IF outcome.exc \in DiffCaught THEN Return(<<None, None>>) ELSE outcome

----------------------------------------------------------------------------
(* JSON values and parse_json_cost_file *)

JNum(v) == [t |-> "number", v |-> v]
JStr(text) == [t |-> "string", text |-> text]
JBool(b) == [t |-> "bool", b |-> b]
JNull == [t |-> "null"]
JArr(items) == [t |-> "array", items |-> items]
JObj(fields) == [t |-> "object", fields |-> fields]

\* key in container
Has(container, key) ==
    CASE container.t = "object" -> Return(key \in DOMAIN container.fields)
      [] container.t = "array" -> Return(JStr(<<key>>) \in Range(container.items))
      [] container.t = "string" -> Return(Contains(container.text, key))
      [] OTHER -> Raise("TypeError")

\* container[key] for a string key
Index(container, key) ==
    CASE container.t = "object" ->
             IF key \in DOMAIN container.fields
             THEN Return(container.fields[key]) ELSE Raise("KeyError")
      [] OTHER -> Raise("TypeError")

\* float(value)
FloatOf(value) ==
    CASE value.t = "number" -> Return(value.v)
      [] value.t = "bool" -> Return(IF value.b THEN 100 ELSE 0)
      [] value.t = "string" -> FloatOfText(value.text)
      [] OTHER -> Raise("TypeError")

\* open() and json.load()
OpenLoad(file) ==
    CASE file.state = "missing" -> Raise("FileNotFoundError")
      [] file.state = "unopenable" -> Raise("PermissionError")
      [] file.state = "undecodable" -> Raise("UnicodeDecodeError")
      [] file.state = "invalid" -> Raise("JSONDecodeError")
      [] OTHER -> Return(file.doc)

\* exceptions parse_json_cost_file catches
JsonCaught == {"JSONDecodeError", "FileNotFoundError", "KeyError"}

\* the body of the try block: the returned total, None when the if fails
JsonTotal(file) ==
    LET loaded == OpenLoad(file)
        data == loaded.val
        hasTotals == Has(data, "totals")
        totals == Index(data, "totals")
        hasField == Has(totals.val, "totalCostInTimeframe")
        field == Index(totals.val, "totalCostInTimeframe")
        number == FloatOf(field.val)
    IN  IF loaded.exc # "none" THEN Raise(loaded.exc)
        ELSE IF hasTotals.exc # "none" THEN Raise(hasTotals.exc)
        ELSE IF ~hasTotals.val THEN Return(None)
        ELSE IF totals.exc # "none" THEN Raise(totals.exc)
        ELSE IF hasField.exc # "none" THEN Raise(hasField.exc)
        ELSE IF ~hasField.val THEN Return(None)
        ELSE IF field.exc # "none" THEN Raise(field.exc)
        ELSE IF number.exc # "none" THEN Raise(number.exc)
        ELSE Return(Some(number.val))

parse_json_cost_file(file) ==
    LET outcome == JsonTotal(file)
    IN  IF outcome.exc \in JsonCaught THEN Return(None) ELSE outcome

----------------------------------------------------------------------------
(* find_related_json_files *)

nov_patterns == <<"november", "nov", "september", "sept">>
dec_patterns == <<"december", "dec", "october", "oct">>

NovPrefixes == Range(nov_patterns)
DecPrefixes == Range(dec_patterns)

\* the path parent_dir / f"{prefix}-{sub_id}.json"
JsonPath(parent_dir, prefix, sub_id) ==
    [dir |-> parent_dir, prefix |-> prefix, id |-> sub_id]

\* variant taking the last existing candidate
FirstExisting_Last(patterns, existing, parent_dir, sub_id) ==
    LET hits == {i \in 1..Len(patterns) : patterns[i] \in existing}
    IN  IF hits = {} THEN None
        ELSE Some(JsonPath(parent_dir,
                           patterns[CHOOSE i \in hits : \A j \in hits : i >= j],
                           sub_id))

\* next((p for p in patterns if p.exists()), None); existing is the set of
\* prefixes whose candidate exists in parent_dir
FirstExisting(patterns, existing, parent_dir, sub_id) ==
    LET hits == {i \in 1..Len(patterns) : patterns[i] \in existing}
    IN  IF hits = {} THEN None
        ELSE Some(JsonPath(parent_dir,
                           patterns[CHOOSE i \in hits : \A j \in hits : i <= j],
                           sub_id))

find_related_json_files(existing, parent_dir, sub_id) ==
    <<FirstExisting(nov_patterns, existing, parent_dir, sub_id),
      FirstExisting(dec_patterns, existing, parent_dir, sub_id)>>

----------------------------------------------------------------------------
(* find_diff_files *)

\* file names below base_dir, in the order of their text: an upper-case
\* letter sorts before every lower-case one, "diff-a" before "diff-b"
Names == << <<"DIFF", "-", "AAAA-UUID", ".txt">>,
            <<"REPORT", "-", "aaaa-uuid", ".txt">>,
            <<"diff", "-", "bbbb-uuid", ".txt">>,
            <<"nov-vs-dec", "-", "plain", "-", "diff", ".txt">> >>

\* Path(root) / file
DiffPath(dir, name) == [dir |-> dir, name |-> name]

NameRank(name) == CHOOSE n \in 1..Len(Names) : Names[n] = name

\* p < q on paths
PathLess(p, q) ==
    \/ p.dir < q.dir
    \/ p.dir = q.dir /\ NameRank(p.name) < NameRank(q.name)

RECURSIVE Sorted(_)
\* sorted(paths)
Sorted(paths) ==
    IF paths = {} THEN <<>>
    ELSE LET least == CHOOSE p \in paths : \A q \in paths \ {p} : PathLess(p, q)
         IN  <<least>> \o Sorted(paths \ {least})

find_diff_files(files) ==
    Sorted({p \in files : Contains(Lower(p.name), "diff")})

----------------------------------------------------------------------------
(* self.subscription_data: a dict, its entries in insertion order *)

\* variant whose totals do not start at zero
NewRecord_Unset ==
    [november |-> [total |-> -1, currency |-> "EUR", file |-> None],
     december |-> [total |-> -1, currency |-> "EUR", file |-> None],
     diff_file |-> None]

\* the default factory of __init__
NewRecord ==
    [november |-> [total |-> 0, currency |-> "EUR", file |-> None],
     december |-> [total |-> 0, currency |-> "EUR", file |-> None],
     diff_file |-> None]

Keys(data) == {data[i].id : i \in 1..Len(data)}

Slot(data, id) == CHOOSE i \in 1..Len(data) : data[i].id = id

\* data[id] on a key the dict holds
Rec(data, id) == data[Slot(data, id)].rec

\* variant inserting an entry on every lookup
Touch_AlwaysInsert(data, id) == Append(data, [id |-> id, rec |-> NewRecord])

\* defaultdict.__getitem__: a missing key gets the default record
Touch(data, id) ==
    IF id \in Keys(data) THEN data
    ELSE Append(data, [id |-> id, rec |-> NewRecord])

\* data[id] = rec on a key the dict holds
Put(data, id, rec) == [data EXCEPT ![Slot(data, id)].rec = rec]

\* self.subscription_data[sub_id]['diff_file'] = str(diff_file)
StoreDiffFile(data, sub_id, diff_file) ==
    LET touched == Touch(data, sub_id)
    IN  Put(touched, sub_id,
            [Rec(touched, sub_id) EXCEPT !.diff_file = Some(diff_file)])

----------------------------------------------------------------------------
(* process_all_files: the if / elif of one period *)

\* variant without the elif branch
UpdatePeriod_NoFallback(entry, json_file, json_cost, fallback) ==
    IF json_file # None /\ json_cost # None
    THEN [entry EXCEPT !.total = The(json_cost), !.file = json_file]
    ELSE entry

\* the period's entry after the block; json_file and json_cost are the sibling
\* and what parse_json_cost_file returned for it, fallback the figure of the
\* comparison document
UpdatePeriod(entry, json_file, json_cost, fallback) ==
    IF json_file # None
    THEN IF json_cost # None
         THEN [entry EXCEPT !.total = The(json_cost), !.file = json_file]
         ELSE entry
    ELSE IF fallback # None
         THEN [entry EXCEPT !.total = The(fallback)]
         ELSE entry

----------------------------------------------------------------------------
(* calculate_aggregates and generate_report *)

\* a / b on floats, kept exact
Quotient(a, b) == [num |-> a, den |-> b]

RECURSIVE TotalsLoop(_, _)
\* total_nov and total_dec after the for loop has taken the first k entries
TotalsLoop(data, k) ==
    IF k = 0 THEN <<0, 0>>
    ELSE LET before == TotalsLoop(data, k - 1)
         IN  <<before[1] + data[k].rec.november.total,
               before[2] + data[k].rec.december.total>>

\* variant guarding the division by the december sum
calculate_aggregates_Unguarded(data) ==
    LET totals == TotalsLoop(data, Len(data))
        total_nov == totals[1]
        total_dec == totals[2]
        change == total_dec - total_nov
    IN  [total_november |-> total_nov,
         total_december |-> total_dec,
         total_change |-> change,
         percent_change |-> IF total_dec # 0 THEN Quotient(change * 100, total_nov)
                            ELSE Quotient(0, 1),
         subscription_count |-> Len(data)]

calculate_aggregates(data) ==
    LET totals == TotalsLoop(data, Len(data))
        total_nov == totals[1]
        total_dec == totals[2]
        change == total_dec - total_nov
    IN  [total_november |-> total_nov,
         total_december |-> total_dec,
         total_change |-> change,
         percent_change |-> IF total_nov # 0 THEN Quotient(change * 100, total_nov)
                            ELSE Quotient(0, 1),
         subscription_count |-> Len(data)]

RECURSIVE SortedByDecember(_)
\* sorted(items, key=december total, reverse=True): stable, so among equal
\* totals the earlier entry comes first
SortedByDecember(slots) ==
    IF slots = {} THEN <<>>
    ELSE LET top == CHOOSE i \in slots : \A j \in slots \ {i} :
                        \/ i[2] > j[2]
                        \/ i[2] = j[2] /\ i[1] < j[1]
         IN  <<top>> \o SortedByDecember(slots \ {top})

\* what generate_report puts in the output file, or the exception it raises
generate_report(data) ==
    LET aggregates == calculate_aggregates(data)
        slots == {<<i, data[i].rec.december.total>> : i \in 1..Len(data)}
        ranked == SortedByDecember(slots)
        count(test(_)) == Cardinality({i \in 1..Len(data) : test(data[i].rec)})
        more(r) == r.december.total > r.november.total
        less(r) == r.december.total < r.november.total
        same(r) == r.december.total = r.november.total
    IN  IF aggregates.subscription_count = 0 THEN Raise("ZeroDivisionError")
        ELSE Return(
            [aggregates |-> aggregates,
             breakdown |-> [k \in 1..Len(ranked) |-> data[ranked[k][1]].id],
             increases |-> count(more),
             decreases |-> count(less),
             unchanged |-> count(same),
             avg_nov |-> Quotient(aggregates.total_november,
                                  aggregates.subscription_count),
             avg_dec |-> Quotient(aggregates.total_december,
                                  aggregates.subscription_count)])

----------------------------------------------------------------------------
(* Inputs: what the files hold *)

Cell(amount, currency) == [amount |-> amount, currency |-> currency]
Row(label, cells) == [label |-> label, cells |-> cells]
TextFile(rows) == [state |-> "text", content |-> rows]

Amount_1000_00 == <<"1", ",", "0", "0", "0", ".", "0", "0">>
Amount_800_00 == <<"8", "0", "0", ".", "0", "0">>
Amount_0_50 == <<"0", ".", "5", "0">>
Amount_1620_68 == <<"1", ",", "6", "2", "0", ".", "6", "8">>
Amount_NoPoint == <<"1", ",", "0", "0", "0">>

\* | TOTAL COSTS | 1,000.00 EUR | 800.00 EUR |
ScenarioRow ==
    Row("TOTAL COSTS", <<Cell(Amount_1000_00, "EUR"), Cell(Amount_800_00, "EUR")>>)

\* contents of a comparison document
DiffContents ==
    {[state |-> "unopenable"],
     [state |-> "undecodable"],
     TextFile(<<ScenarioRow>>),
     TextFile(<<Row("Compute", <<Cell(Amount_800_00, "EUR"), Cell(Amount_800_00, "EUR")>>),
                Row("TOTAL COSTS", <<Cell(Amount_0_50, "EUR"), Cell(Amount_1620_68, "EUR"),
                                     Cell(Amount_1620_68, "EUR")>>),
                ScenarioRow>>),
     TextFile(<<>>),
     TextFile(<<Row("Total Costs", <<Cell(Amount_1000_00, "EUR"), Cell(Amount_800_00, "EUR")>>)>>),
     TextFile(<<Row("TOTAL COSTS", <<Cell(Amount_1000_00, "USD"), Cell(Amount_800_00, "USD")>>)>>),
     TextFile(<<Row("TOTAL COSTS", <<Cell(Amount_NoPoint, "EUR"), Cell(Amount_800_00, "EUR")>>)>>)}

JsonFile(doc) == [state |-> "json", doc |-> doc]

\* {"totals": {"totalCostInTimeframe": value}}
CostDoc(value) == JObj("totals" :> JObj("totalCostInTimeframe" :> value))

\* contents of a structured document that yield a total
UsableJson ==
    {JsonFile(CostDoc(JNum(95050))),
     JsonFile(CostDoc(JStr(<<"1", "6", "2", "0", ".", "6", "8">>)))}

\* contents for which parse_json_cost_file returns None
UnusableJson ==
    {[state |-> "invalid"],
     JsonFile(JObj(<<>>)),
     JsonFile(JObj("totals" :> JObj(<<>>))),
     JsonFile(JArr(<<>>))}

\* contents whose exception the source does not catch
RaisingJson ==
    {[state |-> "unopenable"],
     [state |-> "undecodable"],
     JsonFile(JNum(5)),
     JsonFile(JObj("totals" :> JNum(5))),
     JsonFile(CostDoc(JNull)),
     JsonFile(CostDoc(JStr(<<"a", "b", "c">>)))}

JsonContents == UsableJson \cup UnusableJson \cup RaisingJson

\* what a candidate file holds: the primary names hold any content, the
\* aliases a total written as a string
ContentsOf(json_file) ==
    IF json_file.prefix \in {nov_patterns[1], dec_patterns[1]}
    THEN JsonContents \ {JsonFile(CostDoc(JStr(<<"1", "6", "2", "0", ".", "6", "8">>)))}
    ELSE {JsonFile(CostDoc(JStr(<<"1", "6", "2", "0", ".", "6", "8">>)))}

\* candidate prefixes of one period present in a directory: none, the primary
\* name, or two aliases
Present(patterns) == {{}, {patterns[1]}, {patterns[2], patterns[3]}}

\* files that can lie below base_dir
Paths ==
    {DiffPath(1, Names[1]), DiffPath(1, Names[2]), DiffPath(1, Names[4]),
     DiffPath(2, Names[1]), DiffPath(2, Names[3])}

\* the sets of at most MaxFiles files below base_dir
Trees == {t \in SUBSET Paths : Cardinality(t) <= MaxFiles}

----------------------------------------------------------------------------
(* main() and process_all_files *)

Running == [status |-> "running", code |-> 0, exc |-> "none"]
Returned(code) == [status |-> "returned", code |-> code, exc |-> "none"]
Raised(e) == [status |-> "raised", code |-> 1, exc |-> e]

NoProbe == [existing |-> {}, dir |-> 1, id |-> "none", result |-> None]

\* the locals of a pass that has just stored the comparison document
FreshLocals(diff_file, sub_id) ==
    [diff_file |-> diff_file, sub_id |-> sub_id,
     source_cost |-> None, target_cost |-> None,
     nov_file |-> None, dec_file |-> None,
     nov_cost |-> None, dec_cost |-> None]

\* the locals of the pass under way
Current == observed[Len(observed)]

SetCurrent(locals) == [observed EXCEPT ![Len(observed)] = locals]

Init ==
    /\ pc = "main"
    /\ base_dir_exists \in BOOLEAN
    /\ tree \in IF base_dir_exists THEN Trees ELSE {{}}
    /\ diff_files = <<>>
    /\ idx = 0
    /\ subscription_data = <<>>
    /\ observed = <<>>
    /\ exit_code = Running
    /\ report = None
    /\ agg_result = None
    /\ probe = NoProbe

\* main: if not aggregator.base_dir.exists(): return 1
MainCheckDir ==
    /\ pc = "main"
    /\ IF base_dir_exists
       THEN pc' = "find" /\ UNCHANGED exit_code
       ELSE pc' = "exit" /\ exit_code' = Returned(1)
    /\ UNCHANGED <<base_dir_exists, tree, diff_files, idx, subscription_data,
                   observed, report, agg_result, probe>>

\* process_all_files: diff_files = self.find_diff_files()
FindDiffFiles ==
    /\ pc = "find"
    /\ diff_files' = find_diff_files(tree)
    /\ pc' = "loop"
    /\ UNCHANGED <<base_dir_exists, tree, idx, subscription_data, observed,
                   exit_code, report, agg_result, probe>>

\* a pass for a file without an identifier: continue
SkipFile ==
    /\ pc = "loop"
    /\ idx < Len(diff_files)
    /\ extract_subscription_id(diff_files[idx + 1].name) = None
    /\ idx' = idx + 1
    /\ UNCHANGED <<pc, base_dir_exists, tree, diff_files, subscription_data,
                   observed, exit_code, report, agg_result, probe>>

\* a pass for a file with an identifier, up to the diff_file reference
BeginPass ==
    /\ pc = "loop"
    /\ idx < Len(diff_files)
    /\ LET diff_file == diff_files[idx + 1]
           sub_id == extract_subscription_id(diff_file.name)
       IN  /\ sub_id # None
           /\ subscription_data' =
                  StoreDiffFile(subscription_data, The(sub_id), diff_file)
           /\ observed' = Append(observed, FreshLocals(diff_file, The(sub_id)))
    /\ idx' = idx + 1
    /\ pc' = "parse"
    /\ UNCHANGED <<base_dir_exists, tree, diff_files, exit_code, report,
                   agg_result, probe>>

\* source_cost, target_cost = self.parse_diff_text_file(diff_file); an
\* exception the extractor lets through leaves process_all_files and main
ParseDiff ==
    /\ pc = "parse"
    /\ \E content \in DiffContents :
          LET parsed == parse_diff_text_file(content)
          IN  IF parsed.exc = "none"
              THEN /\ observed' = SetCurrent([Current EXCEPT
                                      !.source_cost = parsed.val[1],
                                      !.target_cost = parsed.val[2]])
                   /\ pc' = "locate"
                   /\ UNCHANGED exit_code
              ELSE /\ pc' = "exit"
                   /\ exit_code' = Raised(parsed.exc)
                   /\ UNCHANGED observed
    /\ UNCHANGED <<base_dir_exists, tree, diff_files, idx, subscription_data,
                   report, agg_result, probe>>

\* nov_file, dec_file = self.find_related_json_files(diff_file, sub_id)
LocateJson ==
    /\ pc = "locate"
    /\ \E nov \in Present(nov_patterns), dec \in Present(dec_patterns) :
          LET related == find_related_json_files(nov \cup dec, Current.diff_file.dir,
                                                 Current.sub_id)
          IN  observed' = SetCurrent([Current EXCEPT !.nov_file = related[1],
                                                     !.dec_file = related[2]])
    /\ pc' = "november"
    /\ UNCHANGED <<base_dir_exists, tree, diff_files, idx, subscription_data,
                   exit_code, report, agg_result, probe>>

\* the mapping with one period of sub_id's record replaced
WithPeriod(data, sub_id, period, entry) ==
    Put(data, sub_id,
        IF period = "november" THEN [Rec(data, sub_id) EXCEPT !.november = entry]
        ELSE [Rec(data, sub_id) EXCEPT !.december = entry])

\* if nov_file: ... elif source_cost is not None: ...
NovemberBlock ==
    /\ pc = "november"
    /\ LET sub_id == Current.sub_id
           entry == Rec(subscription_data, sub_id).november
       IN  IF Current.nov_file = None
           THEN /\ subscription_data' =
                       WithPeriod(subscription_data, sub_id, "november",
                                  UpdatePeriod(entry, None, None, Current.source_cost))
                /\ pc' = "december"
                /\ UNCHANGED <<observed, exit_code>>
           ELSE \E content \in ContentsOf(The(Current.nov_file)) :
                   LET parsed == parse_json_cost_file(content)
                   IN  IF parsed.exc = "none"
                       THEN /\ subscription_data' =
                                   WithPeriod(subscription_data, sub_id, "november",
                                              UpdatePeriod(entry, Current.nov_file,
                                                           parsed.val,
                                                           Current.source_cost))
                            /\ observed' = SetCurrent([Current EXCEPT
                                                           !.nov_cost = parsed.val])
                            /\ pc' = "december"
                            /\ UNCHANGED exit_code
                       ELSE /\ pc' = "exit"
                            /\ exit_code' = Raised(parsed.exc)
                            /\ UNCHANGED <<subscription_data, observed>>
    /\ UNCHANGED <<base_dir_exists, tree, diff_files, idx, report, agg_result,
                   probe>>

\* if dec_file: ... elif target_cost is not None: ...
DecemberBlock ==
    /\ pc = "december"
    /\ LET sub_id == Current.sub_id
           entry == Rec(subscription_data, sub_id).december
       IN  IF Current.dec_file = None
           THEN /\ subscription_data' =
                       WithPeriod(subscription_data, sub_id, "december",
                                  UpdatePeriod(entry, None, None, Current.target_cost))
                /\ pc' = "loop"
                /\ UNCHANGED <<observed, exit_code>>
           ELSE \E content \in ContentsOf(The(Current.dec_file)) :
                   LET parsed == parse_json_cost_file(content)
                   IN  IF parsed.exc = "none"
                       THEN /\ subscription_data' =
                                   WithPeriod(subscription_data, sub_id, "december",
                                              UpdatePeriod(entry, Current.dec_file,
                                                           parsed.val,
                                                           Current.target_cost))
                            /\ observed' = SetCurrent([Current EXCEPT
                                                           !.dec_cost = parsed.val])
                            /\ pc' = "loop"
                            /\ UNCHANGED exit_code
                       ELSE /\ pc' = "exit"
                            /\ exit_code' = Raised(parsed.exc)
                            /\ UNCHANGED <<subscription_data, observed>>
    /\ UNCHANGED <<base_dir_exists, tree, diff_files, idx, report, agg_result,
                   probe>>

\* process_all_files has returned
ScanReturned == pc = "loop" /\ idx = Len(diff_files)

\* main: if not aggregator.subscription_data: return 1
MainNoData ==
    /\ ScanReturned
    /\ Len(subscription_data) = 0
    /\ pc' = "exit"
    /\ exit_code' = Returned(1)
    /\ UNCHANGED <<base_dir_exists, tree, diff_files, idx, subscription_data,
                   observed, report, agg_result, probe>>

\* main: aggregator.generate_report(output_file); return 0
MainReport ==
    /\ ScanReturned
    /\ Len(subscription_data) # 0
    /\ LET written == generate_report(subscription_data)
       IN  IF written.exc = "none"
           THEN report' = Some(written.val) /\ exit_code' = Returned(0)
           ELSE report' = report /\ exit_code' = Raised(written.exc)
    /\ pc' = "exit"
    /\ UNCHANGED <<base_dir_exists, tree, diff_files, idx, subscription_data,
                   observed, agg_result, probe>>

Next ==
    \/ MainCheckDir
    \/ FindDiffFiles
    \/ SkipFile
    \/ BeginPass
    \/ ParseDiff
    \/ LocateJson
    \/ NovemberBlock
    \/ DecemberBlock
    \/ MainNoData
    \/ MainReport

Spec == Init /\ [][Next]_vars

----------------------------------------------------------------------------
(* find_related_json_files on its own *)

Idle ==
    /\ base_dir_exists = TRUE
    /\ tree = {}
    /\ diff_files = <<>>
    /\ idx = 0
    /\ observed = <<>>
    /\ exit_code = Running
    /\ report = None

InitLookup ==
    /\ pc = "lookup"
    /\ probe \in [existing : SUBSET (NovPrefixes \cup DecPrefixes), dir : {1, 2},
                  id : UuidPieces, result : {None}]
    /\ subscription_data = <<>>
    /\ agg_result = None
    /\ Idle

Lookup ==
    /\ pc = "lookup"
    /\ probe' = [probe EXCEPT !.result =
                     Some(find_related_json_files(probe.existing, probe.dir, probe.id))]
    /\ pc' = "looked"
    /\ UNCHANGED <<base_dir_exists, tree, diff_files, idx, subscription_data,
                   observed, exit_code, report, agg_result>>

SpecLookup == InitLookup /\ [][Lookup]_vars

----------------------------------------------------------------------------
(* calculate_aggregates on its own *)

AggIds == {"aaaa-uuid", "bbbb-uuid", "cccc-uuid"}

\* totals a record can hold: the default, fallback figures, a negative total
\* read from a structured document
AggTotals == {0, 80000, 100000, 0 - 2500}

AggRecord(nov, dec) ==
    [NewRecord EXCEPT !.november.total = nov, !.december.total = dec]

\* mappings of at most MaxRecords records
AggMappings ==
    UNION {{m \in [1..n -> [id : AggIds, rec : {AggRecord(a, b) : a, b \in AggTotals}]] :
               \A i, j \in 1..n : i # j => m[i].id # m[j].id} : n \in 0..MaxRecords}

InitAggregate ==
    /\ pc = "aggregate"
    /\ subscription_data \in AggMappings
    /\ agg_result = None
    /\ probe = NoProbe
    /\ Idle

Aggregate ==
    /\ pc = "aggregate"
    /\ agg_result' = Some(calculate_aggregates(subscription_data))
    /\ pc' = "aggregated"
    /\ UNCHANGED <<base_dir_exists, tree, diff_files, idx, subscription_data,
                   observed, exit_code, report, probe>>

SpecAggregate == InitAggregate /\ [][Aggregate]_vars

----------------------------------------------------------------------------
(* Properties *)

Periods == {"november", "december"}

\* the period's entry of a record
Entry(rec, period) == IF period = "november" THEN rec.november ELSE rec.december

\* per pass and period: the sibling found, the total read from it, the
\* fallback figure of the comparison document
SiblingOf(locals, period) ==
    IF period = "november" THEN locals.nov_file ELSE locals.dec_file
StructuredOf(locals, period) ==
    IF period = "november" THEN locals.nov_cost ELSE locals.dec_cost
FallbackOf(locals, period) ==
    IF period = "november" THEN locals.source_cost ELSE locals.target_cost

\* the passes made for an identifier, and the last of them
PassesOf(id) == {k \in 1..Len(observed) : observed[k].sub_id = id}
LastPassOf(id) == CHOOSE k \in PassesOf(id) : \A j \in PassesOf(id) : j <= k

\* no pass is under way and none was cut short by an exception
Settled == pc = "loop" \/ (pc = "exit" /\ exit_code.status = "returned")

\* C1: after process_all_files, for every identifier and period: if a
\* comparison document of the subscription has a sibling structured document
\* with a usable total and also a usable fallback figure, the recorded total
\* is a structured document's value, never a fallback's.
C1_StructuredOutranksFallback ==
    ScanReturned =>
        \A id \in Keys(subscription_data) : \A period \in Periods :
            LET structured == {The(StructuredOf(observed[k], period)) :
                                  k \in {j \in PassesOf(id) :
                                            StructuredOf(observed[j], period) # None}}
                both == \E k \in PassesOf(id) :
                            /\ StructuredOf(observed[k], period) # None
                            /\ FallbackOf(observed[k], period) # None
            IN  both => Entry(Rec(subscription_data, id), period).total \in structured

\* C2: when a pass found a sibling structured document whose extractor
\* returned None and the comparison document gave a usable figure for the
\* period, that figure is the period's recorded total.
C2_FallbackOnUnusableJson ==
    (pc = "loop" /\ Len(observed) > 0) =>
        \A period \in Periods :
            (/\ SiblingOf(Current, period) # None
             /\ StructuredOf(Current, period) = None
             /\ FallbackOf(Current, period) # None)
            => Entry(Rec(subscription_data, Current.sub_id), period).total
                   = The(FallbackOf(Current, period))

\* C3: no content of a discovered file raises out of the extractors: main
\* never ends by an exception, and when it ends below an existing root every
\* discovered comparison document has been taken.
C3_NoErrorAbortsScan ==
    /\ exit_code.status # "raised"
    /\ (pc = "exit" /\ base_dir_exists) => idx = Len(diff_files)

\* C4: main returns 1 without a report when the root is missing or no record
\* was created; every other run writes the report and returns 0, and the
\* report is computed with a subscription count of at least 1.
C4_ExitStatusAndReport ==
    pc = "exit" =>
        IF ~base_dir_exists \/ Len(subscription_data) = 0
        THEN exit_code = Returned(1) /\ report = None
        ELSE /\ exit_code = Returned(0)
             /\ report # None
             /\ The(report).aggregates.subscription_count >= 1

\* C5: once a pass is complete, a period for which the identifier's last
\* comparison document had no sibling structured document and a usable
\* fallback figure has that figure as its recorded total (source figure for
\* november, target figure for december); when no comparison document of the
\* identifier had a sibling for the period, the total is the figure of the
\* last document that gave one; the row
\* | TOTAL COSTS | 1,000.00 EUR | 800.00 EUR | gives 1000.00 and 800.00.
C5_FallbackOnly ==
    /\ parse_diff_text_file(TextFile(<<ScenarioRow>>)).val = <<Some(100000), Some(80000)>>
    /\ Settled =>
           \A id \in Keys(subscription_data) : \A period \in Periods :
               LET last == observed[LastPassOf(id)]
                   total == Entry(Rec(subscription_data, id), period).total
                   parseable == {k \in PassesOf(id) : FallbackOf(observed[k], period) # None}
                   latest == CHOOSE k \in parseable : \A j \in parseable : j <= k
               IN  /\ (SiblingOf(last, period) = None /\ FallbackOf(last, period) # None)
                          => total = The(FallbackOf(last, period))
                   /\ (/\ \A k \in PassesOf(id) : SiblingOf(observed[k], period) = None
                       /\ parseable # {})
                          => total = The(FallbackOf(observed[latest], period))

C5_Witness ==
    /\ ScanReturned
    /\ \E id \in Keys(subscription_data) :
          /\ Cardinality(PassesOf(id)) = 1
          /\ observed[LastPassOf(id)].nov_file = None
          /\ observed[LastPassOf(id)].dec_file = None
          /\ Rec(subscription_data, id).november.total = 100000
          /\ Rec(subscription_data, id).december.total = 80000

\* no pass for the identifier got a usable total for the period from a
\* structured document or from a comparison document
NothingUsable(id, period) ==
    \A k \in PassesOf(id) :
        /\ StructuredOf(observed[k], period) = None
        /\ FallbackOf(observed[k], period) = None

\* C6: a record's period for which no structured document and no comparison
\* document gave a usable total has total 0; such records stay in the mapping
\* and are counted and listed in the report.
C6_ZeroDefault ==
    /\ \A id \in Keys(subscription_data) : \A period \in Periods :
           NothingUsable(id, period)
               => Entry(Rec(subscription_data, id), period).total = 0
    /\ \A k \in 1..Len(observed) : observed[k].sub_id \in Keys(subscription_data)
    /\ report # None =>
           /\ The(report).aggregates.subscription_count
                  = Cardinality(Keys(subscription_data))
           /\ Range(The(report).breakdown) = Keys(subscription_data)

C6_Witness ==
    /\ report # None
    /\ \E id \in Keys(subscription_data) :
          /\ \A period \in Periods :
                 /\ NothingUsable(id, period)
                 /\ Entry(Rec(subscription_data, id), period).total = 0
          /\ id \in Range(The(report).breakdown)

RECURSIVE SumOf(_, _)
\* the sum of a period's totals over a set of dict slots
SumOf(slots, period) ==
    IF slots = {} THEN 0
    ELSE LET i == CHOOSE j \in slots : TRUE
         IN  Entry(subscription_data[i].rec, period).total
                 + SumOf(slots \ {i}, period)

\* C7: calculate_aggregates returns the sums of the november and of the
\* december totals, their difference, the number of records, and as
\* percent_change 0 when the november sum is 0 and change / sum * 100
\* otherwise; it leaves the mapping as it was.
C7_AggregateCorrectness ==
    /\ [](pc = "aggregated" =>
            LET a == The(agg_result)
                all == 1..Len(subscription_data)
            IN  /\ a.total_november = SumOf(all, "november")
                /\ a.total_december = SumOf(all, "december")
                /\ a.total_change = a.total_december - a.total_november
                /\ a.subscription_count = Cardinality(Keys(subscription_data))
                /\ a.total_november = 0 => a.percent_change = Quotient(0, 1)
                /\ a.total_november # 0 =>
                       /\ a.percent_change.num = a.total_change * 100
                       /\ a.percent_change.den = a.total_november)
    /\ [][subscription_data' = subscription_data]_vars

C7_Witness ==
    /\ pc = "aggregated"
    /\ The(agg_result).subscription_count = 2
    /\ The(agg_result).total_november = 0
    /\ The(agg_result).total_december # 0

\* the identifier each file name carries, lower-cased; None for the name
\* without one
ExpectedId(name) ==
    CASE name = Names[1] -> Some("aaaa-uuid")
      [] name = Names[2] -> Some("aaaa-uuid")
      [] name = Names[3] -> Some("bbbb-uuid")
      [] OTHER -> None

\* C8: the mapping holds at most one record per lower-cased identifier, and
\* holds a record exactly for the identifiers in the names of the comparison
\* documents taken so far; a file without identifier leaves the mapping as it
\* is, a known identifier adds no record, and no record is ever removed.
C8_UniqueIdentifiers ==
    /\ [](/\ \A i, j \in 1..Len(subscription_data) :
                 i # j => subscription_data[i].id # subscription_data[j].id
          /\ Keys(subscription_data) \subseteq UuidPieces
          /\ Keys(subscription_data)
                 = {The(ExpectedId(diff_files[k].name)) :
                       k \in {j \in 1..idx : ExpectedId(diff_files[j].name) # None}})
    /\ [][/\ Len(subscription_data') >= Len(subscription_data)
          /\ \A i \in 1..Len(subscription_data) :
                 subscription_data'[i].id = subscription_data[i].id
          /\ idx' = idx + 1 =>
                 LET id == ExpectedId(diff_files[idx + 1].name)
                 IN  /\ id = None => subscription_data' = subscription_data
                     /\ (id # None /\ The(id) \in Keys(subscription_data))
                            => Len(subscription_data') = Len(subscription_data)]_vars

C8_Witness ==
    /\ ScanReturned
    /\ Len(diff_files) = 2
    /\ Len(observed) = 2
    /\ Len(subscription_data) = 1
    /\ Rec(subscription_data, "aaaa-uuid").diff_file = Some(diff_files[2])

\* C9: after process_all_files, a period whose last total came from the
\* fallback has no source path, and a period whose source path is set has as
\* total the value the structured extractor returned for that path.
C9_SourcePathConsistency ==
    ScanReturned =>
        \A id \in Keys(subscription_data) : \A period \in Periods :
            LET entry == Entry(Rec(subscription_data, id), period)
                last == observed[LastPassOf(id)]
            IN  /\ (SiblingOf(last, period) = None /\ FallbackOf(last, period) # None)
                       => entry.file = None
                /\ entry.file # None =>
                       \A k \in PassesOf(id) :
                           (/\ SiblingOf(observed[k], period) = entry.file
                            /\ StructuredOf(observed[k], period) # None)
                           => entry.total = The(StructuredOf(observed[k], period))

\* the candidate prefixes in the order the lookup is to honour
PeriodAOrder == <<"november", "nov", "september", "sept">>
PeriodBOrder == <<"december", "dec", "october", "oct">>

\* found is right for a period: None when no candidate exists, else the
\* existing candidate of probe.dir and probe.id before which no other exists
RightChoice(found, order) ==
    LET present == {k \in 1..Len(order) : order[k] \in probe.existing}
    IN  IF present = {} THEN found = None
        ELSE /\ found # None
             /\ The(found).dir = probe.dir
             /\ The(found).id = probe.id
             /\ \E k \in present : /\ The(found).prefix = order[k]
                                   /\ \A j \in present : k <= j

\* C10: find_related_json_files returns per period the first existing
\* candidate in the fixed order, None when there is none; the candidates of
\* one period have no part in the other period's result.
C10_SiblingPriority ==
    pc = "looked" =>
        /\ RightChoice(The(probe.result)[1], PeriodAOrder)
        /\ RightChoice(The(probe.result)[2], PeriodBOrder)

C10_Witness ==
    /\ pc = "looked"
    /\ probe.existing = {"nov", "sept", "oct"}
    /\ The(The(probe.result)[1]).prefix = "nov"
    /\ The(The(probe.result)[2]).prefix = "oct"

====
